---------------------------- MODULE Spec2Model ----------------------------
(***************************************************************************)
(* Model of the doctor upsert form                                         *)
(*   src/src/app/(protected)/doctors/_components/upsert-doctor-form.tsx    *)
(* : the zod schema formSchema, the react-hook-form state of               *)
(* UpsertDoctorForm, its reset effect, its submit and delete handlers and  *)
(* the two next-safe-action hooks; and of the appointments page            *)
(*   src/unnamed/part_000                                                  *)
(* : its session lookup and the three clinic-scoped queries it issues      *)
(* before it returns.                                                      *)
(*                                                                         *)
(* Representation of JavaScript values                                     *)
(*   string     a tuple of one-character strings, <<"0","8",":","0","0">>; *)
(*              CodeUnit gives the UTF-16 code unit that `<` compares.     *)
(*   number     the form's price is always the IEEE-754 double nearest to  *)
(*              h/100 for an integer h (it comes from cents / 100 or from  *)
(*              NumericFormat's floatValue with decimalScale 2):           *)
(*              [kind |-> "number", hundredths |-> h].                     *)
(*              The product price * 100 is the double that lies `ulps`     *)
(*              representable doubles away from the integer `integer`:     *)
(*              [integer |-> h, ulps |-> k], an integer exactly when k = 0.*)
(*   undefined  Undefined.                                                 *)
(***************************************************************************)
EXTENDS Integers, Sequences, FiniteSets, TLC

VARIABLES
    isOpen,         \* prop isOpen
    doctor,         \* prop doctor (NoDoctor when not supplied)
    hasOnSuccess,   \* whether the optional prop onSuccess is supplied
    defaultValues,  \* react-hook-form's default values (last reset)
    values,         \* react-hook-form's field values
    errors,         \* react-hook-form's formState.errors
    isSubmitted,    \* react-hook-form's formState.isSubmitted
    isPending,      \* upersetDoctorAction.isPending
    upsertInFlight, \* remote upsert calls issued and not yet answered
    deleteInFlight, \* remote delete calls issued and not yet answered
    confirmOpen,    \* the delete AlertDialog is showing its content
    emitted,        \* what the last step called: remote calls, toasts, onSuccess
    candidate,      \* a record handed to formSchema directly
    parseResult,    \* what formSchema answered for candidate
    page            \* AppointmentsPage: the state of each request being served

vars == <<isOpen, doctor, hasOnSuccess, defaultValues, values, errors,
          isSubmitted, isPending, upsertInFlight, deleteInFlight,
          confirmOpen, emitted, candidate, parseResult, page>>

formVars == <<isOpen, doctor, hasOnSuccess, defaultValues, values, errors,
              isSubmitted, isPending, upsertInFlight, deleteInFlight,
              confirmOpen, emitted>>

-----------------------------------------------------------------------------
(* Strings *)

\* The UTF-16 code unit of a character, as String.prototype `<` compares it.
CodeUnit(c) ==
    CASE c = " " -> 32
      [] c = "0" -> 48  [] c = "1" -> 49  [] c = "2" -> 50  [] c = "3" -> 51
      [] c = "4" -> 52  [] c = "5" -> 53  [] c = "6" -> 54  [] c = "7" -> 55
      [] c = "8" -> 56  [] c = "9" -> 57  [] c = ":" -> 58

\* a < b on JavaScript strings: lexicographic on code units, a proper prefix first.
RECURSIVE StrLess(_, _)
StrLess(a, b) ==
    IF b = <<>> THEN FALSE
    ELSE IF a = <<>> THEN TRUE
    ELSE IF CodeUnit(Head(a)) # CodeUnit(Head(b))
         THEN CodeUnit(Head(a)) < CodeUnit(Head(b))
    ELSE StrLess(Tail(a), Tail(b))

RECURSIVE TrimStart(_)
TrimStart(s) ==
    IF s # <<>> /\ Head(s) = " " THEN TrimStart(Tail(s)) ELSE s

RECURSIVE TrimEnd(_)
TrimEnd(s) ==
    IF s # <<>> /\ s[Len(s)] = " " THEN TrimEnd(SubSeq(s, 1, Len(s) - 1)) ELSE s

\* String.prototype.trim, which zod's .trim() applies before .min(1)
Trim(s) == TrimEnd(TrimStart(s))

Digits == <<"0", "1", "2", "3", "4", "5", "6", "7", "8", "9">>

\* Number.prototype.toString() of a non-negative integer
RECURSIVE NumberToString(_)
NumberToString(n) ==
    IF n < 10 THEN <<Digits[n + 1]>>
    ELSE NumberToString(n \div 10) \o <<Digits[(n % 10) + 1]>>

IsDigit(c) == \E i \in 1..10 : Digits[i] = c

DigitValue(c) == (CHOOSE i \in 1..10 : Digits[i] = c) - 1

RECURSIVE ParseDigits(_, _)
ParseDigits(s, acc) ==
    IF s = <<>> \/ ~IsDigit(Head(s)) THEN acc
    ELSE ParseDigits(Tail(s), acc * 10 + DigitValue(Head(s)))

\* parseInt(s): leading white space skipped, then the longest run of decimal
\* digits; NaN when there is none.
ParseInt(s) ==
    LET t == TrimStart(s)
    IN  IF t = <<>> \/ ~IsDigit(Head(t)) THEN "NaN" ELSE ParseDigits(t, 0)

-----------------------------------------------------------------------------
(* Numbers *)

Undefined == [kind |-> "undefined"]

\* the double nearest to h / 100
Decimal(h) == [kind |-> "number", hundredths |-> h]

IsNumber(v) == v.kind = "number"

RECURSIVE Pow2Mod100(_)
Pow2Mod100(n) == IF n = 0 THEN 1 ELSE (2 * Pow2Mod100(n - 1)) % 100

RECURSIVE Pow2(_)
Pow2(n) == IF n = 0 THEN 1 ELSE 2 * Pow2(n - 1)

\* floor(log2(h)) for h >= 1
RECURSIVE Log2(_)
Log2(h) == IF h < 2 THEN 0 ELSE 1 + Log2(h \div 2)

\* floor(log2(h / 100)) for h >= 1: the binary exponent of the double h / 100
RECURSIVE QuotientExponent(_)
QuotientExponent(h) ==
    IF h >= 200 THEN 1 + QuotientExponent(h \div 2)
    ELSE IF h < 100 THEN QuotientExponent(2 * h) - 1
    ELSE 0

\* The rounding error of the division, in units of the quotient's last place
\* and scaled by 100.  With j the quotient's exponent, h * 2^(52-j) = 100 m + r
\* for the 53-bit m and 0 <= r < 100; the double is m (r < 50) or m + 1
\* (r > 50) times 2^(j-52), so 100 * double = h + d * 2^(j-52) with d = -r or
\* 100 - r.  (r = 50 cannot happen: 4 divides h * 2^(52-j) and 100.)
DivisionError(h) ==
    LET r == ((h % 100) * Pow2Mod100(52 - QuotientExponent(h))) % 100
    IN  IF 2 * r < 100 THEN 0 - r ELSE 100 - r

\* v * 100 in IEEE-754 double arithmetic, round to nearest, ties to even, for
\* v the double nearest to h / 100.  The exact product is h + d * 2^(j-52);
\* the doubles around h are 2^(k-52) apart above it and, when h is a power of
\* two, 2^(k-53) apart below it, k = floor(log2 h).  h itself has an even
\* significand, so a tie goes to h.
Times100(v) ==
    LET h == v.hundredths
    IN  IF h = 0 THEN [integer |-> 0, ulps |-> 0]
        ELSE LET d == DivisionError(h)
                 s == Log2(h) - QuotientExponent(h)
                 above == Pow2(s)
                 below == IF Pow2(Log2(h)) = h THEN Pow2(s - 1) ELSE Pow2(s)
             IN  IF d > 0 /\ 2 * d > above THEN [integer |-> h, ulps |-> 1]
                 ELSE IF d < 0 /\ 2 * (0 - d) > below
                      THEN [integer |-> h, ulps |-> 0 - 1]
                 ELSE [integer |-> h, ulps |-> 0]

\* cents / 100
DividedBy100(cents) == Decimal(cents)

\* v >= n for v the double nearest to h / 100 and n an integer: rounding is
\* monotone and n is a double, so this is h >= 100 n.
NumberAtLeast(v, n) == v.hundredths >= 100 * n

-----------------------------------------------------------------------------
(* formSchema *)

Issue(path, message) == [path |-> path, message |-> message]

\* z.string().min(1, {message}) on an already trimmed or untouched string
StringMin1(s, path, message) ==
    IF Len(s) >= 1 THEN <<>> ELSE <<Issue(path, message)>>

\* name: z.string().trim().min(1, ...) without the trim
NameIssuesUntrimmed(data) ==
    StringMin1(data.name, "name", "Doctor name is required")

\* name: z.string().trim().min(1, { message: "Doctor name is required" })
NameIssues(data) ==
    StringMin1(Trim(data.name), "name", "Doctor name is required")

\* specialty: z.string().trim().min(1, { message: "Specialty is required" })
SpecialtyIssues(data) ==
    StringMin1(Trim(data.specialty), "specialty", "Specialty is required")

\* z.number() answers a value that is no number with invalid_type ("Required"
\* for undefined) and INVALID, which aborts the enclosing object.
PriceAborts(data) == ~IsNumber(data.appointmentPrice)

\* appointmentPrice with .min(1) read as "greater than 1"
AppointmentPriceIssuesExclusive(data) ==
    IF PriceAborts(data) THEN <<Issue("appointmentPrice", "Required")>>
    ELSE IF data.appointmentPrice.hundredths > 100 THEN <<>>
    ELSE <<Issue("appointmentPrice", "Appointment price is required")>>

\* appointmentPrice: z.number().min(1, { message: "Appointment price is required" })
AppointmentPriceIssues(data) ==
    IF PriceAborts(data) THEN <<Issue("appointmentPrice", "Required")>>
    ELSE IF NumberAtLeast(data.appointmentPrice, 1) THEN <<>>
    ELSE <<Issue("appointmentPrice", "Appointment price is required")>>

\* availableFromTime: z.string().min(1, { message: "Start time is required" })
AvailableFromTimeIssues(data) ==
    StringMin1(data.availableFromTime, "availableFromTime", "Start time is required")

\* availableToTime: z.string().min(1, { message: "End time is required" })
AvailableToTimeIssues(data) ==
    StringMin1(data.availableToTime, "availableToTime", "End time is required")

\* z.object({...}): the issues of the fields in the order of the shape.
\* availableFromWeekDay and availableToWeekDay are z.string(): no issue.
ObjectIssues(data) ==
    NameIssues(data) \o SpecialtyIssues(data) \o AppointmentPriceIssues(data)
        \o AvailableFromTimeIssues(data) \o AvailableToTimeIssues(data)

\* the object's output: .trim() rewrites name and specialty
ObjectOutput(data) ==
    [data EXCEPT !.name = Trim(data.name), !.specialty = Trim(data.specialty)]

\* the refinement with <= for <
RefineCheckNonStrict(data) ==
    ~StrLess(data.availableToTime, data.availableFromTime)

\* .refine((data) => data.availableFromTime < data.availableToTime, ...)
RefineCheck(data) ==
    StrLess(data.availableFromTime, data.availableToTime)

OrderingIssue ==
    Issue("availableToTime", "Start time must be before end time")

\* ZodEffects runs the refinement on the object's output unless the object
\* parse was aborted; a failed .min() only dirties it.
RefineIssues(data) ==
    IF PriceAborts(data) \/ RefineCheck(ObjectOutput(data)) THEN <<>>
    ELSE <<OrderingIssue>>

\* formSchema.safeParse(data)
SafeParse(data) ==
    LET issues == ObjectIssues(data) \o RefineIssues(data)
    IN  [success |-> issues = <<>>, issues |-> issues, data |-> ObjectOutput(data)]

IssueSet(result) == {result.issues[i] : i \in 1..Len(result.issues)}

-----------------------------------------------------------------------------
(* Values the model draws its inputs from *)

EmptyString == <<>>
Blank == <<" ">>
Ana == <<"A", "n", "a">>
Bo == <<"B", "o">>
Cardiology == <<"c", "a", "r", "d", "i", "o", "l", "o", "g", "y">>
T0800 == <<"0", "8", ":", "0", "0", ":", "0", "0">>
T0900 == <<"0", "9", ":", "0", "0", ":", "0", "0">>
T0930 == <<"0", "9", ":", "3", "0", ":", "0", "0">>

NoDoctor == [kind |-> "undefined"]

NotParsed == [parsed |-> FALSE]

\* records handed to formSchema
Candidates ==
    [name : {EmptyString, Blank, Ana},
     specialty : {EmptyString, Blank, Cardiology},
     appointmentPrice : {Undefined, Decimal(0), Decimal(50), Decimal(100),
                         Decimal(110), Decimal(15000)},
     availableFromWeekDay : {<<"0">>, <<"1">>},
     availableToWeekDay : {<<"5">>, <<"6">>},
     availableFromTime : {EmptyString, Blank, T0800, T0900, T0930},
     availableToTime : {EmptyString, Blank, T0800, T0900, T0930}]

\* records the parent may supply as the prop doctor
DoctorA ==
    [id |-> [kind |-> "uuid", uuid |-> "a"], name |-> Ana, specialty |-> Cardiology,
     appointmentPriceInCents |-> 15000,
     availableFromWeekDay |-> 1, availableToWeekDay |-> 5,
     availableFromTime |-> T0800, availableToTime |-> T0900]

DoctorB ==
    [id |-> [kind |-> "uuid", uuid |-> "b"], name |-> Bo, specialty |-> Cardiology,
     appointmentPriceInCents |-> 110,
     availableFromWeekDay |-> 0, availableToWeekDay |-> 6,
     availableFromTime |-> T0800, availableToTime |-> T0900]

DoctorProps == {NoDoctor, DoctorA, DoctorB}

\* what the user enters in each control
FieldChoices ==
    [name |-> {Blank, Ana},
     specialty |-> {Cardiology},
     appointmentPrice |-> {Undefined, Decimal(110)},
     availableFromWeekDay |-> {<<"0">>},
     availableToWeekDay |-> {<<"6">>},
     availableFromTime |-> {T0800, T0900},
     availableToTime |-> {T0800, T0900}]

FieldNames == DOMAIN FieldChoices

-----------------------------------------------------------------------------
(* UpsertDoctorForm *)

\* useForm({ defaultValues: {...} })
UseFormDefaultValues(d) ==
    [name |-> IF d = NoDoctor THEN EmptyString ELSE d.name,
     specialty |-> IF d = NoDoctor THEN EmptyString ELSE d.specialty,
     appointmentPrice |->
        IF d # NoDoctor /\ d.appointmentPriceInCents # 0
        THEN DividedBy100(d.appointmentPriceInCents) ELSE Decimal(0),
     availableFromWeekDay |->
        IF d = NoDoctor THEN <<"1">> ELSE NumberToString(d.availableFromWeekDay),
     availableToWeekDay |->
        IF d = NoDoctor THEN <<"5">> ELSE NumberToString(d.availableToWeekDay),
     availableFromTime |-> IF d = NoDoctor THEN EmptyString ELSE d.availableFromTime,
     availableToTime |-> IF d = NoDoctor THEN EmptyString ELSE d.availableToTime]

\* the argument of form.reset in the effect
ResetValues(d) ==
    [name |-> IF d = NoDoctor THEN EmptyString ELSE d.name,
     specialty |-> IF d = NoDoctor THEN EmptyString ELSE d.specialty,
     appointmentPrice |->
        IF d # NoDoctor /\ d.appointmentPriceInCents # 0
        THEN DividedBy100(d.appointmentPriceInCents) ELSE Decimal(0),
     availableFromWeekDay |->
        IF d = NoDoctor THEN <<"1">> ELSE NumberToString(d.availableFromWeekDay),
     availableToWeekDay |->
        IF d = NoDoctor THEN <<"5">> ELSE NumberToString(d.availableToWeekDay),
     availableFromTime |-> IF d = NoDoctor THEN EmptyString ELSE d.availableFromTime,
     availableToTime |-> IF d = NoDoctor THEN EmptyString ELSE d.availableToTime]

\* an effect that never resets
EffectNeverResets(open) == FALSE

\* useEffect(() => { if (isOpen) form.reset(...) }, [isOpen, form, doctor])
EffectResets(open) == open

\* zodResolver(formSchema): the first issue of each path becomes its field error
ResolverErrors(result) ==
    {result.issues[i] : i \in {k \in 1..Len(result.issues) :
        \A j \in 1..(k - 1) : result.issues[j].path # result.issues[k].path}}

\* reValidateMode "onChange": once the form was submitted, a changed field's
\* error is replaced by what the resolver now says for that field.
ErrorsAfterChange(field, newValues) ==
    IF isSubmitted
    THEN {e \in errors : e.path # field}
         \cup {e \in ResolverErrors(SafeParse(newValues)) : e.path = field}
    ELSE errors

DoctorId(d) == IF d = NoDoctor THEN Undefined ELSE d.id

\* the argument of upersetDoctorAction.execute in handleSubmit
UpsertInput(v, d) ==
    [name |-> v.name,
     specialty |-> v.specialty,
     appointmentPrice |-> v.appointmentPrice,
     availableFromTime |-> v.availableFromTime,
     availableToTime |-> v.availableToTime,
     id |-> DoctorId(d),
     availableFromWeekDay |-> ParseInt(v.availableFromWeekDay),
     availableToWeekDay |-> ParseInt(v.availableToWeekDay),
     appointmentPriceInCents |-> Times100(v.appointmentPrice)]

Call(op, input) == [op |-> op, input |-> input]

\* a delete input that names a fixed record
DeleteInputFixed(d) == [id |-> DoctorA.id]

\* { id: doctor.id }
DeleteInput(d) == [id |-> d.id]

\* handleDeleteDoctorClick
HandleDeleteDoctorClick(d) ==
    IF d = NoDoctor THEN <<>> ELSE <<Call("deleteDoctor", DeleteInput(d))>>

\* a form that calls handleSubmit whatever the resolver says
HandleSubmitAlwaysCalled(result) == TRUE

\* form.handleSubmit(handleSubmit) calls handleSubmit only when the resolver
\* reports no error
HandleSubmitCalled(result) == result.success

\* an action hook whose isPending stays set when the call settles
IsPendingKept == isPending

\* upersetDoctorAction.isPending once the call has settled
IsPendingWhenSettled == FALSE

\* a submit button that is never disabled
SubmitNeverDisabled == FALSE

\* <Button type="submit" disabled={upersetDoctorAction.isPending}>
SubmitDisabled == isPending

\* {doctor && (<AlertDialog> ... </AlertDialog>)}
DeleteTriggerRendered == doctor # NoDoctor

\* a Delete button outside the confirmation dialog
DeleteActionShownUnconfirmed == isOpen /\ DeleteTriggerRendered

\* the AlertDialogAction lives in the AlertDialogContent
DeleteActionShown == confirmOpen

\* an onSuccess that only shows the toast
UpsertOnSuccessToastOnly ==
    <<Call("toast.success", "Doctor added successfully")>>

\* upersetDoctorAction's onSuccess
UpsertOnSuccess ==
    <<Call("toast.success", "Doctor added successfully")>>
        \o (IF hasOnSuccess THEN <<Call("onSuccess", "")>> ELSE <<>>)

\* an onError that also runs the completion callback
UpsertOnErrorWithCompletion ==
    <<Call("toast.error", "Error adding doctor")>>
        \o (IF hasOnSuccess THEN <<Call("onSuccess", "")>> ELSE <<>>)

\* upersetDoctorAction's onError
UpsertOnError == <<Call("toast.error", "Error adding doctor")>>

\* deleteDoctorAction's onSuccess
DeleteOnSuccess == <<Call("toast.success", "Médico deletado com sucesso.")>>

\* deleteDoctorAction's onError
DeleteOnError == <<Call("toast.error", "Erro ao deletar médico.")>>

-----------------------------------------------------------------------------
(* AppointmentsPage (src/unnamed/part_000) *)

\* auth.api.getSession answers null when the request carries no session
NoSession == [kind |-> "null"]

SessionWithoutClinic == [kind |-> "session", user |-> [clinic |-> Undefined]]

SessionWithClinic ==
    [kind |-> "session", user |-> [clinic |-> [id |-> "clinic-1"]]]

Sessions == {NoSession, SessionWithoutClinic, SessionWithClinic}

HasClinic(s) == s # NoSession /\ s.user.clinic # Undefined

\* session!.user.clinic!.id: the non-null assertions are erased at run time,
\* so reading .user of null or .id of undefined throws a TypeError
ClinicIdThrows(s) == s = NoSession \/ s.user.clinic = Undefined

ClinicId(s) == s.user.clinic.id

Tables == {"patientsTable", "doctorsTable", "appointmentsTable"}

\* the three findMany calls of Promise.all, each scoped by clinicId
ClinicQueries(s) == {[table |-> t, clinicId |-> ClinicId(s)] : t \in Tables}

MaxRequests == 2

Requests == 1..MaxRequests

PageStart ==
    [pc |-> "start", session |-> NoSession, issued |-> {}, resolved |-> {}]

PageInitial == [r \in Requests |-> PageStart]

\* const session = await auth.api.getSession({ headers: await headers() })
PageGetSession ==
    \E r \in Requests : \E s \in Sessions :
        /\ page[r].pc = "start"
        /\ page' = [page EXCEPT ![r].pc = "session", ![r].session = s]
        /\ UNCHANGED <<candidate, parseResult, formVars>>

\* the array literal handed to Promise.all: the where clauses are evaluated,
\* first to last, before WithAuthentication is ever rendered
PageRunQueries ==
    \E r \in Requests :
        /\ page[r].pc = "session"
        /\ IF ClinicIdThrows(page[r].session)
           THEN page' = [page EXCEPT ![r].pc = "threw"]
           ELSE page' = [page EXCEPT ![r].pc = "querying",
                                     ![r].issued = ClinicQueries(page[r].session)]
        /\ UNCHANGED <<candidate, parseResult, formVars>>

\* one of the three queries resolves
PageQueryResolves ==
    \E r \in Requests : \E q \in page[r].issued \ page[r].resolved :
        /\ page[r].pc = "querying"
        /\ page' = [page EXCEPT ![r].resolved = @ \cup {q}]
        /\ UNCHANGED <<candidate, parseResult, formVars>>

\* Promise.all resolves and the page returns <WithAuthentication ...>
PageReturn ==
    \E r \in Requests :
        /\ page[r].pc = "querying"
        /\ page[r].resolved = page[r].issued
        /\ page' = [page EXCEPT ![r].pc = "returned"]
        /\ UNCHANGED <<candidate, parseResult, formVars>>

-----------------------------------------------------------------------------
(* UpsertDoctorForm: state and steps *)

MaxInFlight == 2

NoErrors == {}

Init ==
    /\ isOpen = FALSE
    /\ doctor \in DoctorProps
    /\ hasOnSuccess \in BOOLEAN
    /\ defaultValues = UseFormDefaultValues(doctor)
    /\ values = UseFormDefaultValues(doctor)
    /\ errors = NoErrors
    /\ isSubmitted = FALSE
    /\ isPending = FALSE
    /\ upsertInFlight = 0
    /\ deleteInFlight = 0
    /\ confirmOpen = FALSE
    /\ emitted = <<>>
    /\ candidate = UseFormDefaultValues(NoDoctor)
    /\ parseResult = NotParsed
    /\ page = PageInitial

\* the reset effect, run after a render in which isOpen or doctor changed
RunEffect(open, d) ==
    IF EffectResets(open)
    THEN /\ values' = ResetValues(d)
         /\ defaultValues' = ResetValues(d)
         /\ errors' = NoErrors
         /\ isSubmitted' = FALSE
    ELSE UNCHANGED <<values, defaultValues, errors, isSubmitted>>

\* the parent opens the dialog
Open ==
    /\ ~isOpen
    /\ isOpen' = TRUE
    /\ RunEffect(TRUE, doctor)
    /\ emitted' = <<>>
    /\ UNCHANGED <<doctor, hasOnSuccess, isPending, upsertInFlight,
                   deleteInFlight, confirmOpen, candidate, parseResult, page>>

\* the parent closes the dialog: DialogContent unmounts, and with
\* shouldUnregister the unmounted fields lose their values and errors
Close ==
    /\ isOpen
    /\ isOpen' = FALSE
    /\ values' = defaultValues
    /\ errors' = NoErrors
    /\ confirmOpen' = FALSE
    /\ emitted' = <<>>
    /\ UNCHANGED <<doctor, hasOnSuccess, defaultValues, isSubmitted, isPending,
                   upsertInFlight, deleteInFlight, candidate, parseResult, page>>

\* the parent supplies another record (or none)
ChangeDoctor ==
    \E d \in DoctorProps \ {doctor} :
        /\ doctor' = d
        /\ RunEffect(isOpen, d)
        /\ confirmOpen' = (confirmOpen /\ d # NoDoctor)
        /\ emitted' = <<>>
        /\ UNCHANGED <<isOpen, hasOnSuccess, isPending, upsertInFlight,
                       deleteInFlight, candidate, parseResult, page>>

\* field.onChange of one control
Edit ==
    /\ isOpen
    /\ \E field \in FieldNames : \E v \in FieldChoices[field] :
        LET newValues == [values EXCEPT ![field] = v]
        IN  /\ values' = newValues
            /\ errors' = ErrorsAfterChange(field, newValues)
    /\ emitted' = <<>>
    /\ UNCHANGED <<isOpen, doctor, hasOnSuccess, defaultValues, isSubmitted,
                   isPending, upsertInFlight, deleteInFlight, confirmOpen,
                   candidate, parseResult, page>>

\* form.handleSubmit(handleSubmit): the resolver, then handleSubmit on success
Submit ==
    /\ isOpen
    /\ ~SubmitDisabled
    /\ upsertInFlight < MaxInFlight
    /\ LET result == SafeParse(values)
       IN  /\ errors' = ResolverErrors(result)
           /\ isSubmitted' = TRUE
           /\ IF HandleSubmitCalled(result)
              THEN /\ emitted' = <<Call("upsertDoctor", UpsertInput(result.data, doctor))>>
                   /\ isPending' = TRUE
                   /\ upsertInFlight' = upsertInFlight + 1
              ELSE /\ emitted' = <<>>
                   /\ UNCHANGED <<isPending, upsertInFlight>>
    /\ UNCHANGED <<isOpen, doctor, hasOnSuccess, defaultValues, values,
                   deleteInFlight, confirmOpen, candidate, parseResult, page>>

\* the remote upsert call resolves
UpsertSucceeds ==
    /\ upsertInFlight > 0
    /\ upsertInFlight' = upsertInFlight - 1
    /\ isPending' = IsPendingWhenSettled
    /\ emitted' = UpsertOnSuccess
    /\ UNCHANGED <<isOpen, doctor, hasOnSuccess, defaultValues, values, errors,
                   isSubmitted, deleteInFlight, confirmOpen, candidate, parseResult, page>>

\* the remote upsert call fails
UpsertFails ==
    /\ upsertInFlight > 0
    /\ upsertInFlight' = upsertInFlight - 1
    /\ isPending' = IsPendingWhenSettled
    /\ emitted' = UpsertOnError
    /\ UNCHANGED <<isOpen, doctor, hasOnSuccess, defaultValues, values, errors,
                   isSubmitted, deleteInFlight, confirmOpen, candidate, parseResult, page>>

\* a click on the AlertDialogTrigger "Delete doctor"
OpenDeleteConfirm ==
    /\ isOpen
    /\ DeleteTriggerRendered
    /\ ~confirmOpen
    /\ confirmOpen' = TRUE
    /\ emitted' = <<>>
    /\ UNCHANGED <<isOpen, doctor, hasOnSuccess, defaultValues, values, errors,
                   isSubmitted, isPending, upsertInFlight, deleteInFlight,
                   candidate, parseResult, page>>

\* a click on AlertDialogCancel
CancelDelete ==
    /\ confirmOpen
    /\ confirmOpen' = FALSE
    /\ emitted' = <<>>
    /\ UNCHANGED <<isOpen, doctor, hasOnSuccess, defaultValues, values, errors,
                   isSubmitted, isPending, upsertInFlight, deleteInFlight,
                   candidate, parseResult, page>>

\* a click on AlertDialogAction "Delete"
ConfirmDelete ==
    /\ DeleteActionShown
    /\ deleteInFlight < MaxInFlight
    /\ emitted' = HandleDeleteDoctorClick(doctor)
    /\ deleteInFlight' = deleteInFlight + Len(HandleDeleteDoctorClick(doctor))
    /\ confirmOpen' = FALSE
    /\ UNCHANGED <<isOpen, doctor, hasOnSuccess, defaultValues, values, errors,
                   isSubmitted, isPending, upsertInFlight, candidate, parseResult, page>>

\* the remote delete call resolves
DeleteSucceeds ==
    /\ deleteInFlight > 0
    /\ deleteInFlight' = deleteInFlight - 1
    /\ emitted' = DeleteOnSuccess
    /\ UNCHANGED <<isOpen, doctor, hasOnSuccess, defaultValues, values, errors,
                   isSubmitted, isPending, upsertInFlight, confirmOpen,
                   candidate, parseResult, page>>

\* the remote delete call fails
DeleteFails ==
    /\ deleteInFlight > 0
    /\ deleteInFlight' = deleteInFlight - 1
    /\ emitted' = DeleteOnError
    /\ UNCHANGED <<isOpen, doctor, hasOnSuccess, defaultValues, values, errors,
                   isSubmitted, isPending, upsertInFlight, confirmOpen,
                   candidate, parseResult, page>>

Next ==
    \/ Open
    \/ Close
    \/ ChangeDoctor
    \/ Edit
    \/ Submit
    \/ UpsertSucceeds
    \/ UpsertFails
    \/ OpenDeleteConfirm
    \/ CancelDelete
    \/ ConfirmDelete
    \/ DeleteSucceeds
    \/ DeleteFails

Spec == Init /\ [][Next]_vars

\* every remote upsert call is answered
FairSpec == Spec /\ WF_vars(UpsertSucceeds \/ UpsertFails)

-----------------------------------------------------------------------------
(* formSchema applied to records of its input type *)

SchemaInit ==
    /\ isOpen = FALSE
    /\ doctor = NoDoctor
    /\ hasOnSuccess = FALSE
    /\ defaultValues = UseFormDefaultValues(NoDoctor)
    /\ values = UseFormDefaultValues(NoDoctor)
    /\ errors = NoErrors
    /\ isSubmitted = FALSE
    /\ isPending = FALSE
    /\ upsertInFlight = 0
    /\ deleteInFlight = 0
    /\ confirmOpen = FALSE
    /\ emitted = <<>>
    /\ candidate \in Candidates
    /\ parseResult = NotParsed
    /\ page = PageInitial

\* formSchema.safeParse(candidate)
ParseCandidate ==
    /\ parseResult = NotParsed
    /\ parseResult' = SafeParse(candidate)
    /\ UNCHANGED <<candidate, formVars, page>>

SchemaNext == ParseCandidate

SchemaSpec == SchemaInit /\ [][SchemaNext]_vars

-----------------------------------------------------------------------------
(* AppointmentsPage serving requests *)

PageInit ==
    /\ isOpen = FALSE
    /\ doctor = NoDoctor
    /\ hasOnSuccess = FALSE
    /\ defaultValues = UseFormDefaultValues(NoDoctor)
    /\ values = UseFormDefaultValues(NoDoctor)
    /\ errors = NoErrors
    /\ isSubmitted = FALSE
    /\ isPending = FALSE
    /\ upsertInFlight = 0
    /\ deleteInFlight = 0
    /\ confirmOpen = FALSE
    /\ emitted = <<>>
    /\ candidate = UseFormDefaultValues(NoDoctor)
    /\ parseResult = NotParsed
    /\ page = PageInitial

PageNext ==
    \/ PageGetSession
    \/ PageRunQueries
    \/ PageQueryResolves
    \/ PageReturn

PageSpec == PageInit /\ [][PageNext]_vars

-----------------------------------------------------------------------------
(* Properties of formSchema (checked under SchemaSpec) *)

Parsed == parseResult # NotParsed

HasIssue(path, message) == Issue(path, message) \in IssueSet(parseResult)

OrderingMessage == "Start time must be before end time"

\* the ordering error sits on availableToTime and nowhere else
OrderingErrorOnEndTime ==
    /\ ~parseResult.success
    /\ HasIssue("availableToTime", OrderingMessage)
    /\ \A e \in IssueSet(parseResult) :
          e.message = OrderingMessage => e.path = "availableToTime"

NotBefore == ~StrLess(candidate.availableFromTime, candidate.availableToTime)

\* C1 as stated: whenever availableFromTime >= availableToTime, validation
\* fails and the ordering error is attached to availableToTime only.
C1_OrderingErrorForEveryRecord ==
    Parsed /\ NotBefore => OrderingErrorOnEndTime

\* C1 amended: whenever availableFromTime >= availableToTime validation fails,
\* and if appointmentPrice is a number the ordering error is attached to
\* availableToTime and to no other path.
C1_OrderingErrorWhenPriceIsNumber ==
    Parsed /\ NotBefore =>
        /\ ~parseResult.success
        /\ IsNumber(candidate.appointmentPrice) => OrderingErrorOnEndTime

\* equal, non-empty times with a valid price: only the refinement rejects
C1_Witness ==
    /\ Parsed
    /\ candidate.availableFromTime = T0900
    /\ candidate.availableToTime = T0900
    /\ candidate.appointmentPrice = Decimal(15000)
    /\ parseResult.issues = <<OrderingIssue>>

Succeeds == parseResult.success /\ parseResult.issues = <<>>

\* C2 as stated: non-empty name, specialty and times (name and specialty read
\* as non-empty after trimming), start before end and a price greater than 0
\* validate without any error.
C2_PositivePriceSucceeds ==
    ( /\ Parsed
      /\ Trim(candidate.name) # EmptyString
      /\ Trim(candidate.specialty) # EmptyString
      /\ candidate.availableFromTime # EmptyString
      /\ candidate.availableToTime # EmptyString
      /\ StrLess(candidate.availableFromTime, candidate.availableToTime)
      /\ IsNumber(candidate.appointmentPrice)
      /\ candidate.appointmentPrice.hundredths > 0 )
    => Succeeds

\* C2 amended: name and specialty non-empty after trimming, non-empty times,
\* start before end and a price of at least 1 validate without any error.
C2_PriceAtLeastOneSucceeds ==
    ( /\ Parsed
      /\ Trim(candidate.name) # EmptyString
      /\ Trim(candidate.specialty) # EmptyString
      /\ candidate.availableFromTime # EmptyString
      /\ candidate.availableToTime # EmptyString
      /\ StrLess(candidate.availableFromTime, candidate.availableToTime)
      /\ IsNumber(candidate.appointmentPrice)
      /\ candidate.appointmentPrice.hundredths >= 100 )
    => Succeeds

\* a price of exactly 1.00 is accepted
C2_Witness ==
    /\ Parsed
    /\ candidate.name = Ana
    /\ candidate.specialty = Cardiology
    /\ candidate.appointmentPrice = Decimal(100)
    /\ candidate.availableFromTime = T0800
    /\ candidate.availableToTime = T0930
    /\ Succeeds

RequiredMessage ==
    [name |-> "Doctor name is required",
     specialty |-> "Specialty is required",
     availableFromTime |-> "Start time is required",
     availableToTime |-> "End time is required"]

RequiredFields == DOMAIN RequiredMessage

\* C3 as stated: each of name, specialty, availableFromTime, availableToTime
\* that is empty after trimming gets its required-field error.
C3_BlankRejectedForAllFour ==
    Parsed =>
        \A f \in RequiredFields :
            Trim(candidate[f]) = EmptyString => HasIssue(f, RequiredMessage[f])

\* C3 amended: name and specialty get their required-field error exactly when
\* they are empty after trimming; availableFromTime and availableToTime get
\* theirs exactly when they are the empty string (no trimming: a
\* white-space-only time gets no required-field error).
C3_RequiredFieldErrors ==
    Parsed =>
        /\ \A f \in {"name", "specialty"} :
              HasIssue(f, RequiredMessage[f]) <=> Trim(candidate[f]) = EmptyString
        /\ \A f \in {"availableFromTime", "availableToTime"} :
              HasIssue(f, RequiredMessage[f]) <=> candidate[f] = EmptyString

\* a white-space-only name is rejected as required, next to a white-space-only
\* start time that is not
C3_Witness ==
    /\ Parsed
    /\ candidate.name = Blank
    /\ candidate.availableFromTime = Blank
    /\ HasIssue("name", "Doctor name is required")
    /\ ~HasIssue("availableFromTime", "Start time is required")

-----------------------------------------------------------------------------
(* Properties of the form (checked under Spec and FairSpec) *)

Ops(calls) == {calls[i].op : i \in 1..Len(calls)}

UpsertIssued == "upsertDoctor" \in Ops(emitted)

DeleteIssued == "deleteDoctor" \in Ops(emitted)

Valid(v) == SafeParse(v).success

\* C4: a remote upsert call is issued only by a submit of values that pass
\* formSchema, and carries those values; the first submit of failing values
\* sets field errors, issues no call and leaves the action idle.
C4_UpsertOnlyWhenValid ==
    [][ /\ (UpsertIssued' \/ upsertInFlight' > upsertInFlight) =>
              /\ Valid(values)
              /\ values' = values
              /\ emitted' = <<Call("upsertDoctor",
                                   UpsertInput(SafeParse(values).data, doctor))>>
        /\ (isSubmitted' /\ ~isSubmitted /\ ~Valid(values)) =>
              /\ errors' # NoErrors
              /\ ~UpsertIssued'
              /\ upsertInFlight' = upsertInFlight
              /\ ~isPending /\ ~isPending'
      ]_vars

\* start 09:00:00, end 08:00:00 submitted in create mode: rejected, idle
C4_Witness ==
    /\ doctor = NoDoctor
    /\ isSubmitted
    /\ values.availableFromTime = T0900
    /\ values.availableToTime = T0800
    /\ Issue("availableToTime", OrderingMessage) \in errors
    /\ ~UpsertIssued
    /\ upsertInFlight = 0
    /\ ~isPending

CreateModeDefaults ==
    [name |-> EmptyString, specialty |-> EmptyString,
     appointmentPrice |-> Decimal(0),
     availableFromWeekDay |-> <<"1">>, availableToWeekDay |-> <<"5">>,
     availableFromTime |-> EmptyString, availableToTime |-> EmptyString]

\* C6: whenever the dialog goes from closed to open, the field values are the
\* initialization of the record supplied then (the create-mode defaults when
\* none is), with no field error left.
C6_OpenShowsCurrentRecord ==
    [][ (~isOpen /\ isOpen') =>
            /\ values' = UseFormDefaultValues(doctor')
            /\ doctor' = NoDoctor => values' = CreateModeDefaults
            /\ errors' = NoErrors
      ]_vars

\* open for record B with B's values, reset after an earlier submit
C6_Witness ==
    /\ isOpen
    /\ doctor = DoctorB
    /\ values = UseFormDefaultValues(DoctorB)
    /\ values.name = Bo
    /\ upsertInFlight = 1
    /\ ~isSubmitted

UpsertInputIssued == emitted[1].input

\* C7 as stated: submitting the values a record initialized, unchanged,
\* issues a payload with the record's integer cents and weekdays.
C7_RoundTrip ==
    ( /\ UpsertIssued
      /\ doctor # NoDoctor
      /\ values = UseFormDefaultValues(doctor) )
    => /\ UpsertInputIssued.appointmentPriceInCents
            = [integer |-> doctor.appointmentPriceInCents, ulps |-> 0]
       /\ UpsertInputIssued.availableFromWeekDay = doctor.availableFromWeekDay
       /\ UpsertInputIssued.availableToWeekDay = doctor.availableToWeekDay

\* C8: without a record there is no delete confirmation and no remote delete
\* call, and a remote delete call carries the id of the supplied record.
C8_DeleteOnlyOfSuppliedRecord ==
    /\ doctor = NoDoctor => ~DeleteIssued /\ ~DeleteActionShown
    /\ DeleteIssued => /\ doctor # NoDoctor
                       /\ emitted = <<Call("deleteDoctor", [id |-> doctor.id])>>

\* record B was deleted after the form had been mounted or reset for others
C8_Witness ==
    /\ DeleteIssued
    /\ doctor = DoctorB
    /\ emitted[1].input.id = DoctorB.id

\* C9: a remote delete call is issued only by a step taken while the
\* confirmation dialog is showing, which closes it; opening the confirmation
\* issues no call, and neither does a step that closes it without a call.
C9_DeleteOnlyAfterConfirmation ==
    [][ /\ (DeleteIssued' \/ deleteInFlight' > deleteInFlight) =>
              confirmOpen /\ ~confirmOpen'
        /\ (~confirmOpen /\ confirmOpen') =>
              ~DeleteIssued' /\ deleteInFlight' = deleteInFlight
      ]_vars

C9_Witness ==
    /\ DeleteIssued
    /\ deleteInFlight = 1
    /\ ~confirmOpen
    /\ isOpen

\* C10: the upsert action is idle or submitting and nothing else; a call is
\* issued only from idle and makes it submitting; every answer, success or
\* failure, makes it idle again with the submit button enabled and runs the
\* outcome's callback; and a submitting action becomes idle eventually.
C10_IdleSubmittingIdle ==
    /\ [](/\ isPending \in BOOLEAN
          /\ upsertInFlight \in {0, 1}
          /\ isPending <=> upsertInFlight = 1)
    /\ [][ /\ upsertInFlight' > upsertInFlight => ~isPending /\ isPending'
           /\ upsertInFlight' < upsertInFlight =>
                 /\ isPending /\ ~isPending' /\ ~SubmitDisabled'
                 /\ emitted' \in {UpsertOnSuccess, UpsertOnError}
           /\ isPending' # isPending => upsertInFlight' # upsertInFlight
         ]_vars
    /\ (isPending ~> ~isPending)

\* back to idle after a failure, the submit button enabled again
C10_Witness ==
    /\ emitted = UpsertOnError
    /\ ~isPending
    /\ ~SubmitDisabled
    /\ isOpen

UpsertSuccessToast == Call("toast.success", "Doctor added successfully")

UpsertFailureToast == Call("toast.error", "Error adding doctor")

CompletionCall == Call("onSuccess", "")

UpsertAnswered == upsertInFlight' < upsertInFlight

\* C11: the answer to a failed remote upsert emits the failure notification
\* and nothing else (no completion callback), changes no field value, default
\* value, field error or prop, and leaves the submit button enabled with no
\* call in flight, so the same values can be submitted again.
C11_FailureLeavesFormForRetry ==
    [][ (UpsertAnswered /\ emitted'[1] # UpsertSuccessToast) =>
            /\ emitted' = <<UpsertFailureToast>>
            /\ values' = values
            /\ defaultValues' = defaultValues
            /\ errors' = errors
            /\ isSubmitted' = isSubmitted
            /\ isOpen' = isOpen /\ doctor' = doctor
            /\ ~SubmitDisabled'
            /\ upsertInFlight' = 0
      ]_vars

\* after a failure the form is open, submitted, still valid and idle
C11_Witness ==
    /\ emitted = <<UpsertFailureToast>>
    /\ isOpen
    /\ isSubmitted
    /\ Valid(values)
    /\ errors = NoErrors
    /\ ~SubmitDisabled
    /\ upsertInFlight = 0
    /\ hasOnSuccess

\* C12: the answer to a successful remote upsert emits the success
\* notification followed by exactly one call of the completion callback when
\* one is supplied (none otherwise); the completion callback is called by no
\* other step: not by a rejected or accepted submit, an upsert failure or a
\* delete outcome.
C12_CompletionOnlyOnUpsertSuccess ==
    [][ /\ (UpsertAnswered /\ emitted'[1] = UpsertSuccessToast) =>
              emitted' = IF hasOnSuccess
                         THEN <<UpsertSuccessToast, CompletionCall>>
                         ELSE <<UpsertSuccessToast>>
        /\ UpsertAnswered =>
              emitted'[1] \in {UpsertSuccessToast, UpsertFailureToast}
        /\ "onSuccess" \in Ops(emitted') =>
              /\ UpsertAnswered
              /\ hasOnSuccess
              /\ emitted' = <<UpsertSuccessToast, CompletionCall>>
              /\ deleteInFlight' = deleteInFlight
      ]_vars

\* the completion callback ran after a success while a delete is in flight
C12_Witness ==
    /\ emitted = <<UpsertSuccessToast, CompletionCall>>
    /\ hasOnSuccess
    /\ upsertInFlight = 0
    /\ ~isPending
    /\ deleteInFlight = 1

\* "HH:MM:SS": two digits, a colon, two digits, a colon, two digits
IsTimeString(s) ==
    /\ Len(s) = 8
    /\ \A i \in {1, 2, 4, 5, 7, 8} : IsDigit(s[i])
    /\ s[3] = ":" /\ s[6] = ":"

\* C13 as stated: every remote upsert call carries the supplied record's id
\* in edit mode and none in create mode, an integer appointmentPriceInCents
\* equal to the entered price times 100, weekdays that are the integers 0..6
\* parsed from the selected values, and "HH:MM:SS" times with the start
\* strictly before the end.
C13_UpsertInputConforms ==
    UpsertIssued =>
        /\ UpsertInputIssued.id
              = (IF doctor = NoDoctor THEN Undefined ELSE doctor.id)
        /\ UpsertInputIssued.appointmentPriceInCents
              = [integer |-> values.appointmentPrice.hundredths, ulps |-> 0]
        /\ UpsertInputIssued.availableFromWeekDay \in 0..6
        /\ UpsertInputIssued.availableToWeekDay \in 0..6
        /\ NumberToString(UpsertInputIssued.availableFromWeekDay)
              = values.availableFromWeekDay
        /\ NumberToString(UpsertInputIssued.availableToWeekDay)
              = values.availableToWeekDay
        /\ IsTimeString(UpsertInputIssued.availableFromTime)
        /\ IsTimeString(UpsertInputIssued.availableToTime)
        /\ StrLess(UpsertInputIssued.availableFromTime,
                   UpsertInputIssued.availableToTime)

-----------------------------------------------------------------------------
(* Properties of AppointmentsPage (checked under PageSpec) *)

\* C14 as stated: no request dereferences a null session or clinic, and the
\* clinic-scoped queries are issued only for a session that has a clinic.
C14_NoNullSessionUse ==
    \A r \in Requests :
        /\ page[r].pc # "threw"
        /\ page[r].issued # {} => HasClinic(page[r].session)

=============================================================================
